---- MODULE Spec2Model ----
(***************************************************************************)
(* samsung-cli: a command-line tool that reads and writes the sysfs-style  *)
(* control files of a Samsung Galaxy Book.  The model follows              *)
(* src/src/samsung-cli.cpp: the static initialisation of the three         *)
(* detected paths, main's registry and dispatch, the eight command         *)
(* handlers and the file_ops helpers.  C++ std::string values are TLA+     *)
(* strings; a file is a record of its permissions and its bytes.           *)
(***************************************************************************)
EXTENDS Integers, Sequences, FiniteSets, TLC

VARIABLES
    fs,        \* the files: path -> [r, w, data]
    fs0,       \* the files as they were when the current process started
    dir,       \* the platform-driver directory: [open, entries]
    pc,        \* where the current process is
    argv,      \* the process arguments after the program name
    paths,     \* ALLOW_RECORDING_PATH, START_ON_LID_OPEN_PATH, USB_CHARGE_PATH
    commands,  \* main's std::map from command name to handler class
    handler,   \* the handler main dispatched to ("" when none)
    result,    \* what the dispatched handler's execute returned
    exit,      \* the process exit status (-1 while running)
    out,       \* what the process wrote to std::cout, one element per line block
    err,       \* what the process wrote to std::cerr
    io,        \* the system calls the process made on files, in order
    runs,      \* how many processes have been started
    last       \* the previous process: its arguments, exit status and file calls

vars == <<fs, fs0, dir, pc, argv, paths, commands, handler, result, exit, out, err, io,
          runs, last>>

(***************************************************************************)
(* Bounds of the model.                                                    *)
(***************************************************************************)
MaxRuns == 2
MaxEntries == 2

(***************************************************************************)
(* Strings.                                                                *)
(***************************************************************************)
CharAt(s, i) == SubSeq(s, i, i)

Digits == "0123456789"

IsDigit(c) == \E i \in 1..10 : CharAt(Digits, i) = c

DigitVal(c) == (CHOOSE i \in 1..10 : CharAt(Digits, i) = c) - 1

IsSpace(c) == c \in {" ", "\t", "\n", "\r", "\f"}

INT_MAX == 2147483647

RECURSIVE SkipSpace(_)
SkipSpace(s) ==
    IF Len(s) > 0 /\ IsSpace(Head(s)) THEN SkipSpace(Tail(s)) ELSE s

RECURSIVE DigitRun(_)
DigitRun(s) ==
    IF Len(s) > 0 /\ IsDigit(Head(s)) THEN Head(s) \o DigitRun(Tail(s)) ELSE ""

\* The magnitude of a run of digits, or -1 once it exceeds `limit`.
RECURSIVE Magnitude(_, _, _)
Magnitude(ds, acc, limit) ==
    IF Len(ds) = 0 THEN acc
    ELSE LET d == DigitVal(Head(ds)) IN
         IF acc > (limit - d) \div 10 THEN -1
         ELSE Magnitude(Tail(ds), acc * 10 + d, limit)

RECURSIVE StripZeros(_)
StripZeros(ds) ==
    IF Len(ds) > 1 /\ Head(ds) = "0" THEN StripZeros(Tail(ds)) ELSE ds

\* std::stoi(str): strtol's grammar (leading white space, an optional sign, the
\* longest run of decimal digits; what follows the digits is ignored), throwing
\* std::invalid_argument when there is no digit and std::out_of_range when the
\* value does not fit an int.  threw = TRUE stands for either exception.
stoi(str) ==
    LET s    == SkipSpace(str)
        neg  == Len(s) > 0 /\ Head(s) = "-"
        body == IF Len(s) > 0 /\ Head(s) \in {"+", "-"} THEN Tail(s) ELSE s
        ds   == DigitRun(body)
        mag  == Magnitude(ds, 0, INT_MAX)
    IN  IF Len(ds) = 0 THEN [threw |-> TRUE, val |-> 0]
        ELSE IF mag >= 0 THEN [threw |-> FALSE, val |-> IF neg THEN -mag ELSE mag]
        ELSE IF neg /\ StripZeros(ds) = "2147483648"
             THEN [threw |-> FALSE, val |-> -INT_MAX - 1]
        ELSE [threw |-> TRUE, val |-> 0]

RECURSIVE to_string_nat(_)
to_string_nat(n) ==
    IF n < 10 THEN CharAt(Digits, n + 1)
    ELSE to_string_nat(n \div 10) \o CharAt(Digits, (n % 10) + 1)

\* std::to_string(int)
to_string(val) ==
    IF val >= 0 THEN to_string_nat(val)
    ELSE IF val = -INT_MAX - 1 THEN "-2147483648"
    ELSE "-" \o to_string_nat(-val)

npos == -1

\* std::string::find(needle): the first position (from 0) where needle occurs.
find(hay, needle) ==
    LET hits == {i \in 0..(Len(hay) - Len(needle)) :
                    SubSeq(hay, i + 1, i + Len(needle)) = needle}
    IN  IF hits = {} THEN npos
        ELSE CHOOSE i \in hits : \A j \in hits : i <= j

\* std::getline(file, value): the bytes before the first newline.
getline(data) ==
    LET nl == find(data, "\n")
    IN  IF nl = npos THEN data ELSE SubSeq(data, 1, nl)

\* A comparison of two characters only.
strncmp_SAM_short(name) == Len(name) >= 2 /\ SubSeq(name, 1, 2) = "SA"

\* strncmp(name, "SAM", 3) == 0
strncmp_SAM(name) == Len(name) >= 3 /\ SubSeq(name, 1, 3) = "SAM"

(***************************************************************************)
(* The file system.                                                        *)
(***************************************************************************)
POWER_PATH == "/sys/class/power_supply/BAT1/charge_control_end_threshold"
FAN_PATH == "/sys/bus/acpi/devices/PNP0C0B:00/fan_speed_rpm"
PLATFORM_PROFILE_PATH == "/sys/firmware/acpi/platform_profile"
PLATFORM_PROFILE_CHOICES_PATH == "/sys/firmware/acpi/platform_profile_choices"
KBD_BACKLIGHT_PATH == "/sys/class/leds/samsung-galaxybook::kbd_backlight/brightness"

FixedPaths == {POWER_PATH, FAN_PATH, PLATFORM_PROFILE_PATH,
               PLATFORM_PROFILE_CHOICES_PATH, KBD_BACKLIGHT_PATH}

\* The feature names the three globals are initialised with.
Features == <<"allow_recording", "start_on_lid_open", "usb_charge">>

FeatureSet == {Features[i] : i \in 1..Len(Features)}

DRIVER_DIR == "/sys/bus/platform/drivers/samsung-galaxybook"

udev_path(feature_name) == "/dev/samsung-galaxybook/" \o feature_name

platform_path(d_name, feature_name) ==
    DRIVER_DIR \o "/" \o d_name \o "/" \o feature_name

acpi_path(feature_name) == "/sys/bus/acpi/devices/SCAI:00/" \o feature_name

\* The names readdir may yield in the model: two device instances, a name that
\* shares only two characters with "SAM", and the driver's module link.
EntryNames == {"SAM0429:00", "SAM0430:00", "SA", "module"}

AllPaths ==
    FixedPaths
    \cup {udev_path(f) : f \in FeatureSet}
    \cup {acpi_path(f) : f \in FeatureSet}
    \cup {platform_path(e, f) : e \in EntryNames, f \in FeatureSet}

\* A path with no file behind it: no access, no bytes.
NoFile == [r |-> FALSE, w |-> FALSE, data |-> ""]

File(r, w, data) == [r |-> r, w |-> w, data |-> data]

\* One system call of the process on the file system.
Call(op, path, ok) == [op |-> op, path |-> path, ok |-> ok, value |-> ""]

\* file << value on an open std::ofstream.
Write(path, value) == [op |-> "write", path |-> path, ok |-> TRUE, value |-> value]

(***************************************************************************)
(* detect_feature_path                                                     *)
(***************************************************************************)
\* The readdir loop from entry i on: the first entry that begins with "SAM" and
\* whose attribute is readable ends it.
RECURSIVE scan_entries(_, _, _, _, _)
scan_entries(F, entries, i, feature_name, calls) ==
    IF i > Len(entries)
    THEN [found |-> FALSE, path |-> "", calls |-> calls]
    ELSE LET d_name == entries[i]
             path   == platform_path(d_name, feature_name)
             seen   == Append(calls, Call("readdir", d_name, TRUE))
         IN  IF strncmp_SAM(d_name)
             THEN IF F[path].r
                  THEN [found |-> TRUE, path |-> path,
                        calls |-> Append(seen, Call("access_r", path, TRUE))]
                  ELSE scan_entries(F, entries, i + 1, feature_name,
                                    Append(seen, Call("access_r", path, FALSE)))
             ELSE scan_entries(F, entries, i + 1, feature_name, seen)

\* detect_feature_path(feature_name) on the files F and the driver directory D:
\* the path it returns and the calls it makes.
detect_feature_path(F, D, feature_name) ==
    LET udev  == udev_path(feature_name)
        probe == <<Call("access_r", udev, F[udev].r)>>
    IN  IF F[udev].r
        THEN [path |-> udev, calls |-> probe]
        ELSE IF D.open
        THEN LET scan == scan_entries(F, D.entries, 1, feature_name,
                                      Append(probe, Call("opendir", DRIVER_DIR, TRUE)))
             IN  IF scan.found
                 THEN [path |-> scan.path, calls |-> scan.calls]
                 ELSE [path |-> acpi_path(feature_name), calls |-> scan.calls]
        ELSE [path |-> acpi_path(feature_name),
              calls |-> Append(probe, Call("opendir", DRIVER_DIR, FALSE))]

\* The three globals, initialised in the order of their definitions.
StaticInit ==
    /\ pc = "static_init"
    /\ LET d1 == detect_feature_path(fs, dir, Features[1])
           d2 == detect_feature_path(fs, dir, Features[2])
           d3 == detect_feature_path(fs, dir, Features[3])
       IN  /\ paths' = (Features[1] :> d1.path) @@ (Features[2] :> d2.path)
                       @@ (Features[3] :> d3.path)
           /\ io' = io \o d1.calls \o d2.calls \o d3.calls
    /\ pc' = "main"
    /\ UNCHANGED <<fs, fs0, dir, argv, commands, handler, result, exit, out, err, runs, last>>

(***************************************************************************)
(* namespace file_ops                                                      *)
(***************************************************************************)
\* What a handler did: its return value, the files afterwards, the lines it
\* printed and the calls it made.
Effect(ok, F, o, e, calls) ==
    [ok |-> ok, fs |-> F, out |-> o, err |-> e, calls |-> calls]

\* A handler that prints an error and returns false without touching a file.
Reject(F, message) == Effect(FALSE, F, <<>>, <<message>>, <<>>)

check_permissions(F, path, write) ==
    LET ok == IF write THEN F[path].w ELSE F[path].r
    IN  [ok    |-> ok,
         err   |-> IF ok THEN <<>> ELSE <<"Error: Permission denied. Run with sudo.">>,
         calls |-> <<Call(IF write THEN "access_w" ELSE "access_r", path, ok)>>]

read_file(F, path) ==
    IF ~F[path].r
    THEN [ok |-> FALSE, value |-> "",
          err |-> <<"Error: Could not open " \o path>>,
          calls |-> <<Call("open_r", path, FALSE)>>]
    ELSE [ok |-> TRUE, value |-> getline(F[path].data),
          err |-> <<>>,
          calls |-> <<Call("open_r", path, TRUE)>>]

\* std::ofstream file(path) truncates the file; file << value leaves exactly value.
write_file(F, path, value) ==
    LET perm == check_permissions(F, path, TRUE)
    IN  IF ~perm.ok
        THEN [ok |-> FALSE, fs |-> F, err |-> perm.err, calls |-> perm.calls]
        ELSE [ok |-> TRUE,
              fs |-> [F EXCEPT ![path].data = value],
              err |-> <<>>,
              calls |-> perm.calls \o <<Call("open_w", path, TRUE), Write(path, value)>>]

\* The shape shared by every read_xxx(): after read_file returned rd, return
\* false on its failure and print one line otherwise.
PrintRead(F, rd, line) ==
    IF ~rd.ok THEN Effect(FALSE, F, <<>>, rd.err, rd.calls)
    ELSE Effect(TRUE, F, <<line>>, <<>>, rd.calls)

\* The shape shared by the tail of every set_xxx(): write the file, print one line.
WriteAndPrint(F, path, value, line) ==
    LET wr == write_file(F, path, value)
    IN  IF ~wr.ok THEN Effect(FALSE, F, <<>>, wr.err, wr.calls)
        ELSE Effect(TRUE, wr.fs, <<line>>, <<>>, wr.calls)

EnabledText(value) == IF value = "1" THEN "Enabled" ELSE "Disabled"

(***************************************************************************)
(* PowerCommand                                                            *)
(***************************************************************************)
read_power(F) ==
    LET rd == read_file(F, POWER_PATH)
    IN  PrintRead(F, rd, "Current charge threshold: " \o rd.value \o "%")

\* The range check with its upper limit excluded.
set_power_exclusive(F, value) ==
    LET parsed == stoi(value)
        val    == parsed.val
    IN  IF parsed.threw
        THEN Reject(F, "Error: Invalid value '" \o value \o "'")
        ELSE IF val < 0 \/ val >= 100
        THEN Reject(F, "Error: Value must be between 0 and 100")
        ELSE WriteAndPrint(F, POWER_PATH, to_string(val),
                           "Set charge threshold to " \o to_string(val) \o "%")

set_power(F, value) ==
    LET parsed == stoi(value)
        val    == parsed.val
    IN  IF parsed.threw
        THEN Reject(F, "Error: Invalid value '" \o value \o "'")
        ELSE IF val < 0 \/ val > 100
        THEN Reject(F, "Error: Value must be between 0 and 100")
        ELSE WriteAndPrint(F, POWER_PATH, to_string(val),
                           "Set charge threshold to " \o to_string(val) \o "%")

PowerCommand_execute(F, args) ==
    IF Len(args) < 2
    THEN Reject(F, "Error: Missing power subcommand. Use 'read' or 'set'.")
    ELSE IF args[2] = "read" THEN read_power(F)
    ELSE IF args[2] = "set"
    THEN IF Len(args) < 3
         THEN Reject(F, "Error: Missing value for 'power set'")
         ELSE set_power(F, args[3])
    ELSE Reject(F, "Error: Unknown power subcommand '" \o args[2] \o "'")

(***************************************************************************)
(* FanCommand                                                              *)
(***************************************************************************)
read_fan(F) ==
    LET rd == read_file(F, FAN_PATH)
    IN  PrintRead(F, rd, "Current fan speed: " \o rd.value \o " RPM")

FanCommand_execute(F, args) ==
    IF Len(args) < 2
    THEN Reject(F, "Error: Missing fan subcommand. Use 'read'.")
    ELSE IF args[2] = "read" THEN read_fan(F)
    ELSE Reject(F, "Error: Unknown fan subcommand '" \o args[2] \o "'")

(***************************************************************************)
(* PerformanceCommand                                                      *)
(***************************************************************************)
read_performance_mode(F) ==
    LET rd == read_file(F, PLATFORM_PROFILE_PATH)
    IN  PrintRead(F, rd, "Current performance mode: " \o rd.value)

\* The mode looked up in every line of the choices file, not only its first.
set_performance_mode_all_lines(F, mode) ==
    LET rd == read_file(F, PLATFORM_PROFILE_CHOICES_PATH)
    IN  IF ~rd.ok THEN Effect(FALSE, F, <<>>, rd.err, rd.calls)
        ELSE IF find(F[PLATFORM_PROFILE_CHOICES_PATH].data, mode) = npos
        THEN Effect(FALSE, F, <<>>,
                    <<"Error: Invalid performance mode '" \o mode \o "'">>, rd.calls)
        ELSE LET wr == WriteAndPrint(F, PLATFORM_PROFILE_PATH, mode,
                                     "Set performance mode to " \o mode)
             IN  [wr EXCEPT !.calls = rd.calls \o wr.calls]

set_performance_mode(F, mode) ==
    LET rd == read_file(F, PLATFORM_PROFILE_CHOICES_PATH)
    IN  IF ~rd.ok THEN Effect(FALSE, F, <<>>, rd.err, rd.calls)
        ELSE IF find(rd.value, mode) = npos
        THEN Effect(FALSE, F, <<>>,
                    <<"Error: Invalid performance mode '" \o mode \o "'">>, rd.calls)
        ELSE LET wr == WriteAndPrint(F, PLATFORM_PROFILE_PATH, mode,
                                     "Set performance mode to " \o mode)
             IN  [wr EXCEPT !.calls = rd.calls \o wr.calls]

list_performance_modes(F) ==
    LET rd == read_file(F, PLATFORM_PROFILE_CHOICES_PATH)
    IN  PrintRead(F, rd, "Available performance modes: " \o rd.value)

PerformanceCommand_execute(F, args) ==
    IF Len(args) < 2
    THEN Reject(F, "Error: Missing performance subcommand. Use 'read', 'set', or 'list'.")
    ELSE IF args[2] = "read" THEN read_performance_mode(F)
    ELSE IF args[2] = "set"
    THEN IF Len(args) < 3
         THEN Reject(F, "Error: Missing mode for 'perf set'")
         ELSE set_performance_mode(F, args[3])
    ELSE IF args[2] = "list" THEN list_performance_modes(F)
    ELSE Reject(F, "Error: Unknown performance subcommand '" \o args[2] \o "'")

(***************************************************************************)
(* RecordingCommand                                                        *)
(***************************************************************************)
read_recording_status(F, P) ==
    LET rd == read_file(F, P["allow_recording"])
    IN  PrintRead(F, rd, "Recording permission: " \o EnabledText(rd.value))

set_recording_status(F, P, value) ==
    IF value = "0" \/ value = "off" \/ value = "false" \/ value = "no"
    THEN WriteAndPrint(F, P["allow_recording"], "0",
                       "Set recording permission to " \o EnabledText("0"))
    ELSE IF value = "1" \/ value = "on" \/ value = "true" \/ value = "yes"
    THEN WriteAndPrint(F, P["allow_recording"], "1",
                       "Set recording permission to " \o EnabledText("1"))
    ELSE Reject(F, "Error: Value must be one of: 0/1, on/off, true/false, yes/no")

RecordingCommand_execute(F, P, args) ==
    IF Len(args) < 2
    THEN Reject(F, "Error: Missing recording subcommand. Use 'read' or 'set'.")
    ELSE IF args[2] = "read" THEN read_recording_status(F, P)
    ELSE IF args[2] = "set"
    THEN IF Len(args) < 3
         THEN Reject(F, "Error: Missing value for 'record set'")
         ELSE set_recording_status(F, P, args[3])
    ELSE Reject(F, "Error: Unknown recording subcommand '" \o args[2] \o "'")

(***************************************************************************)
(* KeyboardCommand                                                         *)
(***************************************************************************)
read_keyboard_backlight(F) ==
    LET rd == read_file(F, KBD_BACKLIGHT_PATH)
    IN  PrintRead(F, rd, "Keyboard backlight level: " \o rd.value)

\* The file written before the range is checked.
set_keyboard_backlight_write_first(F, value) ==
    LET parsed == stoi(value)
        val    == parsed.val
        wr     == WriteAndPrint(F, KBD_BACKLIGHT_PATH, to_string(val),
                                "Set keyboard backlight level to " \o to_string(val))
    IN  IF parsed.threw
        THEN Reject(F, "Error: Invalid value '" \o value \o "'")
        ELSE IF val < 0 \/ val > 3
        THEN Effect(FALSE, wr.fs, <<>>, <<"Error: Value must be between 0 and 3">>,
                    wr.calls)
        ELSE wr

\* The range check with its upper limit excluded.
set_keyboard_backlight_exclusive(F, value) ==
    LET parsed == stoi(value)
        val    == parsed.val
    IN  IF parsed.threw
        THEN Reject(F, "Error: Invalid value '" \o value \o "'")
        ELSE IF val < 0 \/ val >= 3
        THEN Reject(F, "Error: Value must be between 0 and 3")
        ELSE WriteAndPrint(F, KBD_BACKLIGHT_PATH, to_string(val),
                           "Set keyboard backlight level to " \o to_string(val))

set_keyboard_backlight(F, value) ==
    LET parsed == stoi(value)
        val    == parsed.val
    IN  IF parsed.threw
        THEN Reject(F, "Error: Invalid value '" \o value \o "'")
        ELSE IF val < 0 \/ val > 3
        THEN Reject(F, "Error: Value must be between 0 and 3")
        ELSE WriteAndPrint(F, KBD_BACKLIGHT_PATH, to_string(val),
                           "Set keyboard backlight level to " \o to_string(val))

KeyboardCommand_execute(F, args) ==
    IF Len(args) < 2
    THEN Reject(F, "Error: Missing keyboard subcommand. Use 'read' or 'set'.")
    ELSE IF args[2] = "read" THEN read_keyboard_backlight(F)
    ELSE IF args[2] = "set"
    THEN IF Len(args) < 3
         THEN Reject(F, "Error: Missing value for 'kbd set'")
         ELSE set_keyboard_backlight(F, args[3])
    ELSE Reject(F, "Error: Unknown keyboard subcommand '" \o args[2] \o "'")

(***************************************************************************)
(* StartOnLidOpenCommand                                                   *)
(***************************************************************************)
StartOnLidOpen_read_status(F, P) ==
    LET rd == read_file(F, P["start_on_lid_open"])
    IN  PrintRead(F, rd, "Start on lid open: " \o EnabledText(rd.value))

StartOnLidOpen_set_status(F, P, value) ==
    IF value = "0" \/ value = "off" \/ value = "false" \/ value = "no"
    THEN WriteAndPrint(F, P["start_on_lid_open"], "0",
                       "Set start on lid open to " \o EnabledText("0"))
    ELSE IF value = "1" \/ value = "on" \/ value = "true" \/ value = "yes"
    THEN WriteAndPrint(F, P["start_on_lid_open"], "1",
                       "Set start on lid open to " \o EnabledText("1"))
    ELSE Reject(F, "Error: Value must be one of: 0/1, on/off, true/false, yes/no")

StartOnLidOpenCommand_execute(F, P, args) ==
    IF Len(args) < 2
    THEN Reject(F, "Error: Missing start-on-lid-open subcommand. Use 'read' or 'set'.")
    ELSE IF args[2] = "read" THEN StartOnLidOpen_read_status(F, P)
    ELSE IF args[2] = "set"
    THEN IF Len(args) < 3
         THEN Reject(F, "Error: Missing value for 'start-on-lid-open set'")
         ELSE StartOnLidOpen_set_status(F, P, args[3])
    ELSE Reject(F, "Error: Unknown start-on-lid-open subcommand '" \o args[2] \o "'")

(***************************************************************************)
(* UsbChargeCommand                                                        *)
(***************************************************************************)
\* The path looked up again at the time of the read.
UsbCharge_read_status_reresolved(F, P) ==
    LET rd == read_file(F, detect_feature_path(F, dir, "usb_charge").path)
    IN  PrintRead(F, rd, "USB charge: " \o EnabledText(rd.value))

UsbCharge_read_status(F, P) ==
    LET rd == read_file(F, P["usb_charge"])
    IN  PrintRead(F, rd, "USB charge: " \o EnabledText(rd.value))

\* The normalisation with "no" left out of the spellings of off.
UsbCharge_set_status_without_no(F, P, value) ==
    IF value = "0" \/ value = "off" \/ value = "false"
    THEN WriteAndPrint(F, P["usb_charge"], "0",
                       "Set USB charge to " \o EnabledText("0"))
    ELSE IF value = "1" \/ value = "on" \/ value = "true" \/ value = "yes"
    THEN WriteAndPrint(F, P["usb_charge"], "1",
                       "Set USB charge to " \o EnabledText("1"))
    ELSE Reject(F, "Error: Value must be one of: 0/1, on/off, true/false, yes/no")

UsbCharge_set_status(F, P, value) ==
    IF value = "0" \/ value = "off" \/ value = "false" \/ value = "no"
    THEN WriteAndPrint(F, P["usb_charge"], "0",
                       "Set USB charge to " \o EnabledText("0"))
    ELSE IF value = "1" \/ value = "on" \/ value = "true" \/ value = "yes"
    THEN WriteAndPrint(F, P["usb_charge"], "1",
                       "Set USB charge to " \o EnabledText("1"))
    ELSE Reject(F, "Error: Value must be one of: 0/1, on/off, true/false, yes/no")

UsbChargeCommand_execute(F, P, args) ==
    IF Len(args) < 2
    THEN Reject(F, "Error: Missing usb-charge subcommand. Use 'read' or 'set'.")
    ELSE IF args[2] = "read" THEN UsbCharge_read_status(F, P)
    ELSE IF args[2] = "set"
    THEN IF Len(args) < 3
         THEN Reject(F, "Error: Missing value for 'usb-charge set'")
         ELSE UsbCharge_set_status(F, P, args[3])
    ELSE Reject(F, "Error: Unknown usb-charge subcommand '" \o args[2] \o "'")

(***************************************************************************)
(* HelpCommand and the registry                                            *)
(***************************************************************************)
get_help(class) ==
    CASE class = "PowerCommand" ->
            "  power read    Read the charge threshold\n"
            \o "  power set <value>  Set the charge threshold (0-100)"
      [] class = "FanCommand" ->
            "  fan read      Read current fan speed in RPM"
      [] class = "PerformanceCommand" ->
            "  perf read     Read current performance mode\n"
            \o "  perf set <mode>  Set performance mode (low-power/balanced/performance)\n"
            \o "  perf list     List available performance modes"
      [] class = "RecordingCommand" ->
            "  record read   Read recording permission status\n"
            \o "  record set <value>  Set recording permission (0/1, on/off, true/false, yes/no)"
      [] class = "KeyboardCommand" ->
            "  kbd read      Read keyboard backlight level\n"
            \o "  kbd set <0-3> Set keyboard backlight level (0=off, 1-3=brightness)\n"
            \o "               Note: Backlight may be affected by ambient light sensor\n"
            \o "               and GNOME's automatic backlight control"
      [] class = "StartOnLidOpenCommand" ->
            "  start-on-lid-open read   Read start on lid open status\n"
            \o "  start-on-lid-open set <value>  Set start on lid open (0/1, on/off, true/false, yes/no)"
      [] class = "UsbChargeCommand" ->
            "  usb-charge read   Read USB charge status\n"
            \o "  usb-charge set <value>  Set USB charge (0/1, on/off, true/false, yes/no)"
      [] class = "HelpCommand" ->
            "  help          Show this help message"

\* The characters of command names, in the order of their codes.
CharOrder == "-abcdefghijklmnopqrstuvwxyz"

CharCode(c) == CHOOSE i \in 1..Len(CharOrder) : CharAt(CharOrder, i) = c

\* std::less<std::string>: lexicographic on the characters.
RECURSIVE string_less(_, _)
string_less(a, b) ==
    IF Len(b) = 0 THEN FALSE
    ELSE IF Len(a) = 0 THEN TRUE
    ELSE IF Head(a) = Head(b) THEN string_less(Tail(a), Tail(b))
    ELSE CharCode(Head(a)) < CharCode(Head(b))

EmptyMap == [k \in {} |-> ""]

\* commands[key] = value on a std::map: one element per key.
map_assign(m, key, value) ==
    [k \in DOMAIN m \cup {key} |-> IF k = key THEN value ELSE m[k]]

\* The keys of a std::map in iteration order.
RECURSIVE map_keys(_)
map_keys(keys) ==
    IF keys = {} THEN <<>>
    ELSE LET first == CHOOSE k \in keys : \A j \in keys \ {k} : string_less(k, j)
         IN  <<first>> \o map_keys(keys \ {first})

\* A copy of the map taken when the help handler was constructed.
HelpCommand_commands_copy(m) == [k \in DOMAIN m \ {"help"} |-> m[k]]

\* What the help handler sees: a reference to main's map, not a copy.
HelpCommand_commands(m) == m

print_help(m) ==
    LET keys == map_keys(DOMAIN HelpCommand_commands(m))
    IN  <<"Usage: samsung-cli <command> [<args>]\n"
          \o "CLI tool to control Samsung Galaxy Book features.\n\nCommands:">>
        \o [i \in 1..Len(keys) |-> get_help(HelpCommand_commands(m)[keys[i]])]

HelpCommand_execute(F, m) == Effect(TRUE, F, print_help(m), <<>>, <<>>)

\* The registrations main makes, in order.
Registrations ==
    << <<"power", "PowerCommand">>, <<"fan", "FanCommand">>,
       <<"perf", "PerformanceCommand">>, <<"record", "RecordingCommand">>,
       <<"kbd", "KeyboardCommand">>,
       <<"start-on-lid-open", "StartOnLidOpenCommand">>,
       <<"usb-charge", "UsbChargeCommand">>, <<"help", "HelpCommand">> >>

RECURSIVE register_all(_, _)
register_all(m, i) ==
    IF i > Len(Registrations) THEN m
    ELSE register_all(map_assign(m, Registrations[i][1], Registrations[i][2]), i + 1)

(***************************************************************************)
(* main                                                                    *)
(***************************************************************************)
\* The handler's bool returned as the exit status.
exit_status_as_bool(ok) == IF ok THEN 1 ELSE 0

\* The exit status main returns for a handler's result.
exit_status(ok) == IF ok THEN 0 ELSE 1

MainRegister ==
    /\ pc = "main"
    /\ commands' = register_all(EmptyMap, 1)
    /\ pc' = "dispatch"
    /\ UNCHANGED <<fs, fs0, dir, argv, paths, handler, result, exit, out, err, io, runs, last>>

\* The help printed for a missing command, reported as a success.
MainNoArgs_success ==
    /\ pc = "dispatch"
    /\ Len(argv) < 1
    /\ out' = out \o HelpCommand_execute(fs, commands).out
    /\ exit' = 0
    /\ pc' = "exited"
    /\ UNCHANGED <<fs, fs0, dir, argv, paths, commands, handler, result, err, io, runs, last>>

\* argc < 2: print the help and return 1.
MainNoArgs ==
    /\ pc = "dispatch"
    /\ Len(argv) < 1
    /\ out' = out \o HelpCommand_execute(fs, commands).out
    /\ exit' = 1
    /\ pc' = "exited"
    /\ UNCHANGED <<fs, fs0, dir, argv, paths, commands, handler, result, err, io, runs, last>>

\* commands.find(command) == commands.end()
MainUnknown ==
    /\ pc = "dispatch"
    /\ Len(argv) >= 1
    /\ argv[1] \notin DOMAIN commands
    /\ err' = Append(err, "Error: Unknown command '" \o argv[1] \o "'")
    /\ out' = out \o HelpCommand_execute(fs, commands).out
    /\ exit' = 1
    /\ pc' = "exited"
    /\ UNCHANGED <<fs, fs0, dir, argv, paths, commands, handler, result, io, runs, last>>

\* The command the first argument names; when the map has it, main calls it.
dispatch_key(args) == args[1]

MainDispatch ==
    /\ pc = "dispatch"
    /\ Len(argv) >= 1
    /\ argv[1] \in DOMAIN commands
    /\ handler' = commands[dispatch_key(argv)]
    /\ pc' = "execute"
    /\ UNCHANGED <<fs, fs0, dir, argv, paths, commands, result, exit, out, err, io, runs, last>>

\* it->second->execute(args) has returned eff.
Executed(class, eff) ==
    /\ pc = "execute"
    /\ handler = class
    /\ fs' = eff.fs
    /\ out' = out \o eff.out
    /\ err' = err \o eff.err
    /\ io' = io \o eff.calls
    /\ result' = eff.ok
    /\ pc' = "return"
    /\ UNCHANGED <<fs0, dir, argv, paths, commands, handler, exit, runs, last>>

PowerExecute == Executed("PowerCommand", PowerCommand_execute(fs, argv))

FanExecute == Executed("FanCommand", FanCommand_execute(fs, argv))

PerformanceExecute == Executed("PerformanceCommand", PerformanceCommand_execute(fs, argv))

RecordingExecute == Executed("RecordingCommand", RecordingCommand_execute(fs, paths, argv))

KeyboardExecute == Executed("KeyboardCommand", KeyboardCommand_execute(fs, argv))

StartOnLidOpenExecute ==
    Executed("StartOnLidOpenCommand", StartOnLidOpenCommand_execute(fs, paths, argv))

UsbChargeExecute == Executed("UsbChargeCommand", UsbChargeCommand_execute(fs, paths, argv))

HelpExecute == Executed("HelpCommand", HelpCommand_execute(fs, commands))

\* return it->second->execute(args) ? 0 : 1;
MainReturn ==
    /\ pc = "return"
    /\ exit' = exit_status(result)
    /\ pc' = "exited"
    /\ UNCHANGED <<fs, fs0, dir, argv, paths, commands, handler, result, out, err, io, runs, last>>

(***************************************************************************)
(* The command lines the tool is started with.                             *)
(***************************************************************************)
CommandNames == {"power", "fan", "perf", "record", "kbd", "start-on-lid-open",
                 "usb-charge", "help"}

\* Value arguments for `power set` and `kbd set`.
NumberArgs == {"0", "3", "4", "-1", "85", "100", "101", "3x", "abc", "", " 7",
               "99999999999"}

\* Value arguments for `perf set`.
ModeArgs == {"balanced", "performance", "bal", "turbo", "", "performance\n"}

\* Value arguments for the three on/off features.
BoolArgs == {"0", "off", "false", "no", "1", "on", "true", "yes", "ON", "2"}

Argvs ==
    {<<>>, <<"bogus">>, <<"lid", "read">>, <<"lid", "set", "1">>,
     <<"usb", "read">>, <<"usb", "set", "1">>, <<"help">>, <<"help", "power">>}
    \cup {<<c>> : c \in CommandNames \ {"help"}}
    \cup {<<c, sub>> : c \in CommandNames \ {"help"},
                       sub \in {"read", "set", "list", "bogus"}}
    \cup {<<c, "set", v>> : c \in {"power", "kbd"}, v \in NumberArgs}
    \cup {<<"perf", "set", v>> : v \in ModeArgs}
    \cup {<<c, "set", v>> : c \in {"record", "start-on-lid-open", "usb-charge"},
                            v \in BoolArgs}

(***************************************************************************)
(* The machines the tool runs on.                                          *)
(***************************************************************************)
\* Where the driver exposes the three attributes.
Layouts == {"udev", "platform", "acpi", "none"}

\* Who runs the tool: root may write the control files, a user may only read.
Users == {"root", "user"}

ChoicesData == {"low-power balanced performance\n",
                "low-power balanced\nperformance\n"}

attr_path(layout, f) ==
    CASE layout = "udev" -> udev_path(f)
      [] layout = "platform" -> platform_path("SAM0430:00", f)
      [] OTHER -> acpi_path(f)

MachineFS(layout, user, choices) ==
    LET w == user = "root"
    IN  [p \in AllPaths |->
            IF p = POWER_PATH THEN File(TRUE, w, "80\n")
            ELSE IF p = FAN_PATH THEN File(TRUE, FALSE, "2400\n")
            ELSE IF p = PLATFORM_PROFILE_PATH THEN File(TRUE, w, "balanced\n")
            ELSE IF p = PLATFORM_PROFILE_CHOICES_PATH THEN File(TRUE, FALSE, choices)
            ELSE IF p = KBD_BACKLIGHT_PATH THEN File(TRUE, w, "1\n")
            ELSE IF layout # "none" /\ \E f \in FeatureSet : p = attr_path(layout, f)
            THEN File(TRUE, w, "0\n")
            ELSE NoFile]

\* A machine without the driver and without the fixed control files.
BareFS == [p \in AllPaths |-> NoFile]

MachineDir(layout) ==
    CASE layout = "platform" -> [open |-> TRUE, entries |-> <<"module", "SAM0430:00">>]
      [] layout = "none" -> [open |-> FALSE, entries |-> <<>>]
      [] OTHER -> [open |-> TRUE, entries |-> <<"module">>]

\* A machine run by root whose kernel offers the profile file without the
\* choices file.
NoChoicesFS ==
    [MachineFS("udev", "root", "") EXCEPT ![PLATFORM_PROFILE_CHOICES_PATH] = NoFile]

\* Before any process has run.
Fresh ==
    /\ argv = <<>>
    /\ paths = [f \in FeatureSet |-> ""]
    /\ commands = EmptyMap
    /\ handler = ""
    /\ result = FALSE
    /\ exit = -1
    /\ out = <<>>
    /\ err = <<>>
    /\ io = <<>>

Init ==
    /\ \/ \E layout \in Layouts, user \in Users, choices \in ChoicesData :
             /\ fs = MachineFS(layout, user, choices)
             /\ dir = MachineDir(layout)
       \/ /\ fs = BareFS
          /\ dir = MachineDir("none")
       \/ /\ fs = NoChoicesFS
          /\ dir = MachineDir("udev")
    /\ fs0 = fs
    /\ pc = "idle"
    /\ runs = 0
    /\ last = <<>>
    /\ Fresh

\* The writes a process made.
writes_of(calls) ==
    LET IsWrite(c) == c.op = "write"
    IN  SelectSeq(calls, IsWrite)

\* The tool is started: int main(int argc, char* argv[]) with argv[1..] = args.
Exec ==
    /\ pc \in {"idle", "exited"}
    /\ runs < MaxRuns
    /\ \E args \in Argvs : argv' = args
    /\ last' = writes_of(io)
    /\ runs' = runs + 1
    /\ paths' = [f \in FeatureSet |-> ""]
    /\ commands' = EmptyMap
    /\ handler' = ""
    /\ result' = FALSE
    /\ exit' = -1
    /\ out' = <<>>
    /\ err' = <<>>
    /\ io' = <<>>
    /\ pc' = "static_init"
    /\ fs0' = fs
    /\ UNCHANGED <<fs, dir>>

Next ==
    \/ Exec
    \/ StaticInit
    \/ MainRegister
    \/ MainNoArgs
    \/ MainUnknown
    \/ MainDispatch
    \/ PowerExecute
    \/ FanExecute
    \/ PerformanceExecute
    \/ RecordingExecute
    \/ KeyboardExecute
    \/ StartOnLidOpenExecute
    \/ UsbChargeExecute
    \/ HelpExecute
    \/ MainReturn

Spec == Init /\ [][Next]_vars

(***************************************************************************)
(* Path resolution on its own: every arrangement of one feature's          *)
(* candidate files, with up to MaxEntries directory entries.               *)
(***************************************************************************)
EntryLists ==
    {es \in UNION {[1..k -> EntryNames] : k \in 0..MaxEntries} :
        \A i, j \in DOMAIN es : i # j => es[i] # es[j]}

ResolveFS(f0, udevR, acpiR, readable) ==
    [p \in AllPaths |->
        IF p = udev_path(f0) THEN File(udevR, udevR, "0\n")
        ELSE IF p = acpi_path(f0) THEN File(acpiR, acpiR, "0\n")
        ELSE IF \E e \in readable : p = platform_path(e, f0) THEN File(TRUE, TRUE, "0\n")
        ELSE NoFile]

InitResolve ==
    /\ \E f0 \in FeatureSet, udevR \in BOOLEAN, acpiR \in BOOLEAN, open \in BOOLEAN,
          es \in EntryLists :
          \E readable \in SUBSET {es[i] : i \in DOMAIN es} :
             /\ fs = ResolveFS(f0, udevR, acpiR, readable)
             /\ dir = [open |-> open, entries |-> es]
    /\ fs0 = fs
    /\ pc = "static_init"
    /\ runs = 1
    /\ last = <<>>
    /\ Fresh

NextResolve == StaticInit

SpecResolve == InitResolve /\ [][NextResolve]_vars

(***************************************************************************)
(* One process on a machine whose device nodes come and go while it runs.  *)
(***************************************************************************)
InitChange ==
    /\ \E layout \in Layouts, user \in Users :
          /\ fs = MachineFS(layout, user, "low-power balanced performance\n")
          /\ dir = MachineDir(layout)
    /\ fs0 = fs
    /\ pc = "static_init"
    /\ runs = 1
    /\ last = <<>>
    /\ \E args \in Argvs : argv = args
    /\ paths = [f \in FeatureSet |-> ""]
    /\ commands = EmptyMap
    /\ handler = ""
    /\ result = FALSE
    /\ exit = -1
    /\ out = <<>>
    /\ err = <<>>
    /\ io = <<>>

\* Between static initialisation and the handler's file access the udev node
\* of a feature appears or disappears.
FsChange ==
    /\ pc \in {"main", "dispatch", "execute"}
    /\ \E f \in FeatureSet :
          fs' = [fs EXCEPT ![udev_path(f)] =
                    IF fs[udev_path(f)].r THEN NoFile ELSE File(TRUE, TRUE, "1\n")]
    /\ UNCHANGED <<fs0, dir, pc, argv, paths, commands, handler, result, exit, out,
                   err, io, runs, last>>

NextChange ==
    \/ StaticInit
    \/ FsChange
    \/ MainRegister
    \/ MainNoArgs
    \/ MainUnknown
    \/ MainDispatch
    \/ PowerExecute
    \/ FanExecute
    \/ PerformanceExecute
    \/ RecordingExecute
    \/ KeyboardExecute
    \/ StartOnLidOpenExecute
    \/ UsbChargeExecute
    \/ HelpExecute
    \/ MainReturn

SpecChange == InitChange /\ [][NextChange]_vars

(***************************************************************************)
(* C1                                                                      *)
(***************************************************************************)
BeginsWithSAM(name) == Len(name) >= 3 /\ SubSeq(name, 1, 3) = "SAM"

\* The entries, by position, that begin with "SAM" and hold a readable attribute.
Qualifying(f) ==
    {i \in DOMAIN dir.entries :
        /\ BeginsWithSAM(dir.entries[i])
        /\ fs[platform_path(dir.entries[i], f)].r}

FirstQualifying(f) == CHOOSE i \in Qualifying(f) : \A j \in Qualifying(f) : i <= j

\* The directory was opened right after the udev probe of f.
ProbedDirectory(f) ==
    \E i \in 1..(Len(io) - 1) :
        /\ io[i].op = "access_r" /\ io[i].path = udev_path(f)
        /\ io[i + 1].op = "opendir"

\* C1: detect_feature_path resolves by strict priority in every file-system
\* state: a readable udev path is returned and the driver directory is not
\* probed; otherwise, when the driver directory opens, the first enumerated
\* entry that begins with "SAM" and has a readable attribute gives the path (an
\* entry that does not begin with "SAM" is never returned); otherwise the ACPI
\* path is returned, whether or not it exists.
C1_ResolvePriority ==
    pc = "main" =>
        \A f \in FeatureSet :
            /\ fs[udev_path(f)].r =>
                  paths[f] = udev_path(f) /\ ~ProbedDirectory(f)
            /\ (~fs[udev_path(f)].r /\ dir.open /\ Qualifying(f) # {}) =>
                  paths[f] = platform_path(dir.entries[FirstQualifying(f)], f)
            /\ (~fs[udev_path(f)].r /\ ~(dir.open /\ Qualifying(f) # {})) =>
                  paths[f] = acpi_path(f)
            /\ \A e \in EntryNames :
                  ~BeginsWithSAM(e) => paths[f] # platform_path(e, f)

\* A resolution that skipped a readable attribute under "module" and an
\* unreadable one under the first device, and took the second device's.
C1_Witness ==
    /\ pc = "main"
    /\ \E f \in FeatureSet :
          /\ ~fs[udev_path(f)].r
          /\ dir.open
          /\ \/ /\ dir.entries = <<"module", "SAM0430:00">>
                /\ fs[platform_path("module", f)].r
                /\ paths[f] = platform_path("SAM0430:00", f)
             \/ /\ dir.entries = <<"SAM0429:00", "SAM0430:00">>
                /\ ~fs[platform_path("SAM0429:00", f)].r
                /\ paths[f] = platform_path("SAM0430:00", f)

(***************************************************************************)
(* Vocabulary of the properties.                                           *)
(***************************************************************************)
Exited == pc = "exited"

\* The integers whose decimal numerals are among NumberArgs.
IntInputs == {-1, 0, 3, 4, 85, 100, 101}

\* The process wrote nothing and no file differs from when it started.
NothingWritten == writes_of(io) = <<>> /\ fs = fs0

\* The process failed and left path as it was.
FailedUnchanged(path) ==
    /\ exit = 1
    /\ fs[path] = fs0[path]
    /\ \A i \in DOMAIN io : io[i].path = path => io[i].op \notin {"open_w", "write"}

\* The process succeeded with one write: exactly `value` into `path`.
WroteExactly(path, value) ==
    /\ exit = 0
    /\ writes_of(io) = <<Write(path, value)>>
    /\ fs[path].data = value
    /\ \A p \in AllPaths \ {path} : fs[p] = fs0[p]

(***************************************************************************)
(* C2                                                                      *)
(***************************************************************************)
\* C2: for every integer v in [0,100], `power set v` on a writable threshold
\* file succeeds and leaves the numeral of v in it, and a `power read` that
\* follows prints v; for every integer v outside [0,100], `power set v` fails
\* and the threshold file is unchanged.
C2_PowerSetThenRead ==
    Exited =>
        /\ \A v \in IntInputs :
              argv = <<"power", "set", to_string(v)>> =>
                  IF v >= 0 /\ v <= 100
                  THEN fs0[POWER_PATH].w => WroteExactly(POWER_PATH, to_string(v))
                  ELSE FailedUnchanged(POWER_PATH) /\ NothingWritten
        /\ \A v \in 0..100 :
              (/\ argv = <<"power", "read">>
               /\ last = <<Write(POWER_PATH, to_string(v))>>
               /\ fs0[POWER_PATH].r) =>
                  /\ exit = 0
                  /\ out = <<"Current charge threshold: " \o to_string(v) \o "%">>

\* `power read` right after a successful `power set 100`.
C2_Witness ==
    /\ Exited
    /\ argv = <<"power", "read">>
    /\ last = <<Write(POWER_PATH, "100")>>
    /\ exit = 0
    /\ out = <<"Current charge threshold: 100%">>

(***************************************************************************)
(* C3                                                                      *)
(***************************************************************************)
OffTokens == {"0", "off", "false", "no"}

OnTokens == {"1", "on", "true", "yes"}

\* The three on/off commands and the global each one writes.
BoolCommands ==
    {<<"record", "allow_recording">>, <<"start-on-lid-open", "start_on_lid_open">>,
     <<"usb-charge", "usb_charge">>}

\* The outcome of writing `value` to a resolved path: the write when the path
\* is writable, a failure without any write otherwise.
WroteIfWritable(path, value) ==
    IF fs0[path].w THEN WroteExactly(path, value)
    ELSE exit = 1 /\ NothingWritten

\* C3: each of record, start-on-lid-open and usb-charge writes exactly "0" for
\* the tokens 0, off, false, no, exactly "1" for 1, on, true, yes, and for any
\* other token fails with no write; the three handlers agree.
C3_BoolNormalization ==
    Exited =>
        \A c \in BoolCommands : \A token \in BoolArgs :
            argv = <<c[1], "set", token>> =>
                IF token \in OffTokens THEN WroteIfWritable(paths[c[2]], "0")
                ELSE IF token \in OnTokens THEN WroteIfWritable(paths[c[2]], "1")
                ELSE exit = 1 /\ NothingWritten

\* `usb-charge set no` wrote "0" over a "1" that `usb-charge set yes` had written.
C3_Witness ==
    /\ Exited
    /\ argv = <<"usb-charge", "set", "no">>
    /\ last = <<Write(paths["usb_charge"], "1")>>
    /\ WroteExactly(paths["usb_charge"], "0")

(***************************************************************************)
(* C4                                                                      *)
(***************************************************************************)
Contains(hay, needle) ==
    \E i \in 0..(Len(hay) - Len(needle)) : SubSeq(hay, i + 1, i + Len(needle)) = needle

\* The bytes of data before its first newline.
FirstLine(data) ==
    IF Contains(data, "\n")
    THEN CHOOSE l \in {SubSeq(data, 1, k) : k \in 0..Len(data)} :
            ~Contains(l, "\n") /\ SubSeq(data, Len(l) + 1, Len(l) + 1) = "\n"
    ELSE data

\* `perf set mode` ran with a readable choices file and a writable profile file.
PerfSetRan(mode) ==
    /\ argv = <<"perf", "set", mode>>
    /\ fs0[PLATFORM_PROFILE_CHOICES_PATH].r
    /\ fs0[PLATFORM_PROFILE_PATH].w

\* C4 as stated: `perf set mode` succeeds if and only if mode is a substring of
\* the contents of the choices file; otherwise it fails and the profile file is
\* unchanged.
C4_SubstringOfContents ==
    Exited =>
        \A mode \in ModeArgs :
            PerfSetRan(mode) =>
                IF Contains(fs0[PLATFORM_PROFILE_CHOICES_PATH].data, mode)
                THEN WroteExactly(PLATFORM_PROFILE_PATH, mode)
                ELSE FailedUnchanged(PLATFORM_PROFILE_PATH)

\* C4 amended: `perf set mode` succeeds if and only if mode is a substring of
\* the first line of the choices file (given that the choices file can be read
\* and the profile file written); otherwise, and whenever one of the two files
\* cannot be used, it fails and the profile file is unchanged.
C4_SubstringOfFirstLine ==
    Exited =>
        \A mode \in ModeArgs :
            argv = <<"perf", "set", mode>> =>
                IF /\ PerfSetRan(mode)
                   /\ Contains(FirstLine(fs0[PLATFORM_PROFILE_CHOICES_PATH].data), mode)
                THEN WroteExactly(PLATFORM_PROFILE_PATH, mode)
                ELSE FailedUnchanged(PLATFORM_PROFILE_PATH)

\* `perf set performance` refused although the second line of the choices file
\* holds "performance".
C4_Witness ==
    /\ Exited
    /\ argv = <<"perf", "set", "performance">>
    /\ PerfSetRan("performance")
    /\ Contains(fs0[PLATFORM_PROFILE_CHOICES_PATH].data, "performance")
    /\ ~Contains(FirstLine(fs0[PLATFORM_PROFILE_CHOICES_PATH].data), "performance")
    /\ FailedUnchanged(PLATFORM_PROFILE_PATH)

(***************************************************************************)
(* C5                                                                      *)
(***************************************************************************)
\* C5: `kbd set v` on a writable backlight file succeeds if and only if
\* 0 <= v <= 3: 0 and 3 succeed, -1 and 4 fail without writing the file.
C5_KbdRange ==
    Exited =>
        /\ \A v \in IntInputs :
              argv = <<"kbd", "set", to_string(v)>> =>
                  /\ fs0[KBD_BACKLIGHT_PATH].w => (exit = 0 <=> (0 <= v /\ v <= 3))
                  /\ (0 <= v /\ v <= 3 /\ fs0[KBD_BACKLIGHT_PATH].w) =>
                        WroteExactly(KBD_BACKLIGHT_PATH, to_string(v))
                  /\ (v < 0 \/ v > 3) =>
                        FailedUnchanged(KBD_BACKLIGHT_PATH) /\ NothingWritten
        /\ \A v \in {0, 3} :
              (argv = <<"kbd", "set", to_string(v)>> /\ fs0[KBD_BACKLIGHT_PATH].w) =>
                  exit = 0
        /\ \A v \in {-1, 4} :
              argv = <<"kbd", "set", to_string(v)>> => exit = 1 /\ NothingWritten

\* `kbd set 3` wrote "3".
C5_Witness ==
    /\ Exited
    /\ argv = <<"kbd", "set", "3">>
    /\ WroteExactly(KBD_BACKLIGHT_PATH, "3")

(***************************************************************************)
(* C6                                                                      *)
(***************************************************************************)
\* An optional sign followed by decimal digits and nothing else.
IsIntegerNumeral(s) ==
    LET body == IF Len(s) > 0 /\ Head(s) \in {"+", "-"} THEN Tail(s) ELSE s
    IN  /\ Len(body) > 0
        /\ \A i \in 1..Len(body) :
              CharAt(body, i) \in {"0", "1", "2", "3", "4", "5", "6", "7", "8", "9"}

\* C6: `power set <value>` and `kbd set <value>` reject every value that is not
\* an integer numeral, text with a numeric prefix included: the process fails
\* and writes nothing.
C6_RejectsNonNumerals ==
    Exited =>
        \A c \in {"power", "kbd"} : \A value \in NumberArgs :
            (argv = <<c, "set", value>> /\ ~IsIntegerNumeral(value)) =>
                exit = 1 /\ NothingWritten

(***************************************************************************)
(* C7                                                                      *)
(***************************************************************************)
HelpHeader ==
    "Usage: samsung-cli <command> [<args>]\n"
    \o "CLI tool to control Samsung Galaxy Book features.\n\nCommands:"

\* The usage text of each command name.
UsageOf(name) ==
    CASE name = "power" -> get_help("PowerCommand")
      [] name = "fan" -> get_help("FanCommand")
      [] name = "perf" -> get_help("PerformanceCommand")
      [] name = "record" -> get_help("RecordingCommand")
      [] name = "kbd" -> get_help("KeyboardCommand")
      [] name = "start-on-lid-open" -> get_help("StartOnLidOpenCommand")
      [] name = "usb-charge" -> get_help("UsbChargeCommand")
      [] name = "help" -> get_help("HelpCommand")

RegisteredNames == {"power", "fan", "perf", "record", "kbd", "start-on-lid-open",
                    "usb-charge", "help"}

\* How many blocks of the output are the usage text of `name`.
Listed(name) == Cardinality({i \in DOMAIN out : out[i] = UsageOf(name)})

\* The output is the header followed by one usage block per registered command.
FullHelp ==
    /\ Len(out) = 1 + Cardinality(RegisteredNames)
    /\ out[1] = HelpHeader
    /\ \A name \in RegisteredNames : Listed(name) >= 1

NoCommandGiven == argv = <<>>

UnknownCommandGiven == Len(argv) >= 1 /\ argv[1] \notin RegisteredNames

\* The process opened no file and checked no write permission.
NoFileTouched ==
    /\ \A i \in DOMAIN io : io[i].op \notin {"open_r", "access_w", "open_w", "write"}
    /\ fs = fs0

\* C7: with no arguments, or with a first argument that is no registered command
\* name, the tool prints the full help and exits with status 1, calls no
\* feature handler and touches no control file.
C7_NoCommandPrintsHelp ==
    (Exited /\ (NoCommandGiven \/ UnknownCommandGiven)) =>
        /\ exit = 1
        /\ FullHelp
        /\ handler = ""
        /\ NoFileTouched

\* `samsung-cli bogus` ended with the help and status 1.
C7_Witness ==
    /\ Exited
    /\ argv = <<"bogus">>
    /\ exit = 1
    /\ FullHelp
    /\ err = <<"Error: Unknown command 'bogus'">>

(***************************************************************************)
(* C8                                                                      *)
(***************************************************************************)
\* The subcommands each feature command supports.
Supported(name) ==
    CASE name = "fan" -> {"read"}
      [] name = "perf" -> {"read", "set", "list"}
      [] OTHER -> {"read", "set"}

MissingSubcommand == Len(argv) = 1 /\ argv[1] # "help"

UnknownSubcommand ==
    Len(argv) >= 2 /\ argv[1] # "help" /\ argv[2] \notin Supported(argv[1])

MissingValue ==
    Len(argv) = 2 /\ argv[1] # "help" /\ argv[2] = "set" /\ "set" \in Supported(argv[1])

\* The value of `set` is outside the feature's domain: an integer out of range
\* or text without a number for power and kbd, an unknown token for the on/off
\* features, a mode that the first line of the choices file does not hold.
InvalidValue ==
    /\ Len(argv) = 3
    /\ argv[2] = "set"
    /\ \/ /\ argv[1] = "power"
          /\ \/ \E v \in IntInputs : argv[3] = to_string(v) /\ (v < 0 \/ v > 100)
             \/ argv[3] \in {"abc", "", "99999999999"}
       \/ /\ argv[1] = "kbd"
          /\ \/ \E v \in IntInputs : argv[3] = to_string(v) /\ (v < 0 \/ v > 3)
             \/ argv[3] \in {"abc", "", "99999999999"}
       \/ /\ argv[1] \in {"record", "start-on-lid-open", "usb-charge"}
          /\ argv[3] \notin OffTokens \cup OnTokens
       \/ /\ argv[1] = "perf"
          /\ fs0[PLATFORM_PROFILE_CHOICES_PATH].r
          /\ ~Contains(FirstLine(fs0[PLATFORM_PROFILE_CHOICES_PATH].data), argv[3])

\* A read or a write of a file failed.
IOFailure ==
    \E i \in DOMAIN io : io[i].op \in {"open_r", "access_w", "open_w"} /\ ~io[i].ok

\* C8: for a recognised command the exit status is 0 exactly when the
\* dispatched handler reported success, and 1 for every failure: a missing
\* subcommand, a missing value for `set`, an unknown subcommand, a value that
\* fails the domain validation, a failed read or write; it is never anything
\* else.
C8_ExitStatus ==
    (Exited /\ Len(argv) >= 1 /\ argv[1] \in RegisteredNames) =>
        /\ exit \in {0, 1}
        /\ exit = 0 <=> result
        /\ (MissingSubcommand \/ MissingValue \/ UnknownSubcommand
              \/ InvalidValue \/ IOFailure) => exit = 1

\* `record read` failed on a path that could not be opened: status 1.
C8_Witness ==
    /\ Exited
    /\ argv = <<"record", "read">>
    /\ IOFailure
    /\ ~result
    /\ exit = 1

(***************************************************************************)
(* C9                                                                      *)
(***************************************************************************)
\* The process printed the help: by the help command, with no arguments, or
\* with an unknown command.
HelpReached ==
    NoCommandGiven \/ UnknownCommandGiven \/ (Len(argv) >= 1 /\ argv[1] = "help")

\* C9: however the help is reached, it lists each registered command (power,
\* fan, perf, record, kbd, start-on-lid-open, usb-charge, help) exactly once.
C9_HelpListsEachOnce ==
    (Exited /\ HelpReached) =>
        /\ \A name \in RegisteredNames : Listed(name) = 1
        /\ \A i \in DOMAIN out :
              i > 1 => \E name \in RegisteredNames : out[i] = UsageOf(name)

\* `samsung-cli help` listed the help command itself.
C9_Witness ==
    /\ Exited
    /\ argv = <<"help">>
    /\ exit = 0
    /\ Listed("help") = 1
    /\ Len(out) = 9

(***************************************************************************)
(* C10                                                                     *)
(***************************************************************************)
\* The handler the README's usage gives each command name.
ReadmeHandler(name) ==
    CASE name = "power" -> "PowerCommand"
      [] name = "fan" -> "FanCommand"
      [] name = "perf" -> "PerformanceCommand"
      [] name = "record" -> "RecordingCommand"
      [] name = "kbd" -> "KeyboardCommand"
      [] name = "lid" -> "StartOnLidOpenCommand"
      [] name = "usb" -> "UsbChargeCommand"

\* C10: the command names of the README's usage reach their features: `lid`
\* the start-on-lid-open control and `usb` the USB-charging control, as power,
\* fan, perf, record and kbd reach theirs.
C10_ReadmeNamesDispatch ==
    Exited =>
        \A name \in {"power", "fan", "perf", "record", "kbd", "lid", "usb"} :
            (Len(argv) >= 2 /\ argv[1] = name) => handler = ReadmeHandler(name)

(***************************************************************************)
(* C11                                                                     *)
(***************************************************************************)
\* The commands that have a `set`, and the control path each one writes.
ControlPath(name) ==
    CASE name = "power" -> POWER_PATH
      [] name = "perf" -> PLATFORM_PROFILE_PATH
      [] name = "kbd" -> KBD_BACKLIGHT_PATH
      [] name = "record" -> paths["allow_recording"]
      [] name = "start-on-lid-open" -> paths["start_on_lid_open"]
      [] name = "usb-charge" -> paths["usb_charge"]

SetCommands == {"power", "perf", "kbd", "record", "start-on-lid-open", "usb-charge"}

\* `value` belongs to the domain of the feature that `name` sets.
InDomain(name, value) ==
    CASE name = "power" -> \E v \in 0..100 : value = to_string(v)
      [] name = "kbd" -> \E v \in 0..3 : value = to_string(v)
      [] name = "perf" ->
            /\ fs0[PLATFORM_PROFILE_CHOICES_PATH].r
            /\ Contains(FirstLine(fs0[PLATFORM_PROFILE_CHOICES_PATH].data), value)
      [] OTHER -> value \in {"0", "1"}

\* The write, when there is one, is the last call, right after the permission
\* check and the open of the same path; `perf set` has read the choices first.
WriteComesLast ==
    \A i \in DOMAIN io :
        io[i].op \in {"open_w", "write"} =>
            /\ i >= 3 /\ Len(io) >= 3
            /\ io[Len(io)].op = "write"
            /\ io[Len(io) - 1] = Call("open_w", io[Len(io)].path, TRUE)
            /\ io[Len(io) - 2] = Call("access_w", io[Len(io)].path, TRUE)
            /\ i >= Len(io) - 1
            /\ argv[1] = "perf" =>
                  \E j \in 1..(Len(io) - 3) :
                      io[j] = Call("open_r", PLATFORM_PROFILE_CHOICES_PATH, TRUE)

\* The invocations that must leave every control file as it was.
MustNotWrite ==
    \/ Len(argv) <= 1
    \/ argv[1] \in {"help", "fan"}
    \/ argv[1] \notin RegisteredNames
    \/ argv[2] # "set"
    \/ Len(argv) = 2
    \/ argv[1] = "perf" /\ ~fs0[PLATFORM_PROFILE_CHOICES_PATH].r

\* C11: in every invocation a file is written only by a `set` subcommand whose
\* value argument is present and whose value passed the domain validation, at
\* most once, and only at the control path of the dispatched feature; `read`,
\* `list`, `help`, `fan`, a missing or unknown subcommand and a failed read of
\* the choices file in `perf set` leave every control file unchanged.
C11_WritesOnlyAfterValidation ==
    LET ws == writes_of(io)
    IN  /\ Len(ws) <= 1
        /\ ws # <<>> =>
              /\ Len(argv) >= 3
              /\ argv[2] = "set"
              /\ argv[1] \in SetCommands
              /\ handler = commands[argv[1]]
              /\ ws[1].path = ControlPath(argv[1])
              /\ InDomain(argv[1], ws[1].value)
        /\ WriteComesLast
        /\ \A p \in AllPaths :
              fs[p] # fs0[p] => ws # <<>> /\ p = ws[1].path
        /\ MustNotWrite => NothingWritten /\ \A i \in DOMAIN io : io[i].op # "open_w"

\* `perf set balanced` read the choices, passed the permission check and wrote
\* the profile, once.
C11_Witness ==
    /\ Exited
    /\ argv = <<"perf", "set", "balanced">>
    /\ writes_of(io) = <<Write(PLATFORM_PROFILE_PATH, "balanced")>>
    /\ fs[PLATFORM_PROFILE_PATH].data = "balanced"
    /\ fs0[PLATFORM_PROFILE_PATH].data # "balanced"
    /\ exit = 0

(***************************************************************************)
(* C12                                                                     *)
(***************************************************************************)
\* The path that the priority order gives f on the files the process started
\* with.
QualifyingAtStart(f) ==
    {i \in DOMAIN dir.entries :
        /\ BeginsWithSAM(dir.entries[i])
        /\ fs0[platform_path(dir.entries[i], f)].r}

StartupPath(f) ==
    IF fs0[udev_path(f)].r THEN udev_path(f)
    ELSE IF dir.open /\ QualifyingAtStart(f) # {}
    THEN platform_path(
            dir.entries[CHOOSE i \in QualifyingAtStart(f) :
                            \A j \in QualifyingAtStart(f) : i <= j], f)
    ELSE acpi_path(f)

\* The calls that resolution makes; the handlers make none of them.
ProbeOps == {"access_r", "opendir", "readdir"}

\* How often the resolution of f was started.
Resolutions(f) ==
    Cardinality({i \in DOMAIN io :
                    io[i].op = "access_r" /\ io[i].path = udev_path(f)})

BoolHandlers == {"RecordingCommand", "StartOnLidOpenCommand", "UsbChargeCommand"}

FeatureOf(name) ==
    CASE name = "record" -> "allow_recording"
      [] name = "start-on-lid-open" -> "start_on_lid_open"
      [] name = "usb-charge" -> "usb_charge"

\* C12: each of the three discoverable features is resolved exactly once per
\* process, before main registers or dispatches anything; from then on the
\* resolved path stays the one computed from the files at startup, whatever
\* happens to the file system, no resolution call follows a handler call, and
\* every file access of a dispatched record, start-on-lid-open or usb-charge
\* command goes to that path.
C12_ResolvedOnceAtStartup ==
    /\ pc = "static_init" => io = <<>> /\ commands = EmptyMap
    /\ pc \in {"main", "dispatch", "execute", "return", "exited"} =>
          \A f \in FeatureSet :
              /\ Resolutions(f) = 1
              /\ paths[f] = StartupPath(f)
    /\ \A i, j \in DOMAIN io :
          (i < j /\ io[j].op \in ProbeOps) => io[i].op \in ProbeOps
    /\ \A i \in DOMAIN io :
          (io[i].op \notin ProbeOps /\ handler \in BoolHandlers) =>
              io[i].path = StartupPath(FeatureOf(argv[1]))

\* `usb-charge set on` wrote to the attribute under the platform driver that
\* was resolved at startup, although the udev node, which a new resolution
\* would prefer, had appeared before the write.
C12_Witness ==
    /\ Exited
    /\ argv = <<"usb-charge", "set", "on">>
    /\ ~fs0[udev_path("usb_charge")].r
    /\ fs[udev_path("usb_charge")] = File(TRUE, TRUE, "1\n")
    /\ paths["usb_charge"] = platform_path("SAM0430:00", "usb_charge")
    /\ writes_of(io) = <<Write(platform_path("SAM0430:00", "usb_charge"), "1")>>
    /\ fs[platform_path("SAM0430:00", "usb_charge")].data = "1"
    /\ exit = 0

====
